---- MODULE Spec2Model ----
(***************************************************************************)
(* Model of the log aggregator of package logz (LogAggregator): the write  *)
(* path (WriteLog, flushBatch), rotation (shouldRotate, rotateFile,        *)
(* initializeFile), the background goroutines (flushTask, indexWorker) and *)
(* Close.  Every goroutine is a process with a program counter; a step is  *)
(* the code between two points at which another goroutine can observe or   *)
(* change the shared fields.  Accesses the code makes without the guarding *)
(* mutex (flushTask calls flushBatch without batchMutex) are separate      *)
(* steps, so that every outcome of the race is a behaviour of the model.   *)
(* The package-level email notifier of the logger (SetEmailConfig,         *)
(* getEmailNotifier) is modelled beside it, with its own callers.          *)
(***************************************************************************)
EXTENDS Integers, Sequences, FiniteSets, TLC

(* ---------------------------------------------------------------- bounds *)
NumProducers == 1
MaxRecords == 3
NumClosers == 2
MaxDay == 2
MaxNow == 11
MaxOpens == 2
BatchSize == 3
QueueCap == 2
RotationSize == 2
NumCallers == 2

(* ------------------------------------------------------ program constants *)
IndexWorkers == 2
RetentionDays == 7
CompressAfterDays == 1

(* -------------------------------------------------------------- processes *)
Producers == {<<"producer", i>> : i \in 1..NumProducers}
Closers == {<<"closer", i>> : i \in 1..NumClosers}
Workers == {<<"indexWorker", i>> : i \in 1..IndexWorkers}
FlushTaskProc == <<"flushTask", 0>>
EmailCallers == {<<"caller", i>> : i \in 1..NumCallers}
Flushers == Producers \cup Closers \cup {FlushTaskProc}
MaintProc == <<"maintenanceTask", 0>>
Procs == Flushers \cup Workers \cup {MaintProc}
NoProc == <<"none", 0>>

RecordIds == 1..MaxRecords
\* the encoded length of the k-th record submitted: lengths 2, 1, 2, 1, ...
MsgSizes(k) == {1 + (k % 2)}
TraceIDs == {"t1"}

VARIABLES
    pc,             \* position of every goroutine
    closed,         \* la.closed
    ctxDone,        \* la.ctx cancelled
    closeMutex,     \* holder of la.closeMutex
    batchMutex,     \* holder of la.batchMutex
    mutex,          \* holder of la.mutex
    batchBuffer,    \* la.batchBuffer
    currentFileID,  \* la.currentFileID
    currentOffset,  \* la.currentOffset
    lastRotation,   \* la.lastRotation (calendar day)
    aggregateFile,  \* la.aggregateFile: "open", "closed" (handle closed) or "nil"
    writer,         \* la.writer: [nil, buf, err]
    files,          \* the directory: shard id -> [lines, mtime]
    indexQueue,     \* la.indexQueue (buffered channel)
    queueClosed,    \* close(la.indexQueue) happened
    doneClosed,     \* close(la.done) happened
    indexDB,        \* la.indexDB: [nil, open, trace_id]
    now,            \* the calendar day of time.Now()
    entry,          \* WriteLog's parameter, per producer
    snap,           \* slice header read by append, per producer
    batchToWrite,   \* flushBatch's local copy, per caller
    fret,           \* where flushBatch returns to, per caller
    ferr,           \* flushBatch's return value, per caller
    ncalls,         \* number of WriteLog calls started so far
    results,        \* return value of WriteLog, per record
    closeRet,       \* return value of Close, per closer
    panicked,       \* a goroutine panicked: the process is dead
    atClose,        \* history: batch buffer and WriteLog results when Close began
    gzFiles,        \* the directory: compressed shards, id -> [lines, mtime]
    mfiles,         \* compressOldFiles' file list still to visit, and the
                    \* file compressFile is working on
    opened,         \* history: the shards initializeFile opened, in order
    epc,            \* position of every caller of the email notifier
    emailMutex,     \* emailMutex (sync.RWMutex): [readers, w]
    globalEmailNotifier,    \* "nil", or the configuration it was built from
    config          \* SetEmailConfig's parameter, per caller

vars == <<pc, closed, ctxDone, closeMutex, batchMutex, mutex, batchBuffer,
          currentFileID, currentOffset, lastRotation, aggregateFile, writer,
          files, indexQueue, queueClosed, doneClosed, indexDB, now, entry,
          snap, batchToWrite, fret, ferr, ncalls, results, closeRet,
          panicked, atClose, gzFiles, mfiles, opened, epc, emailMutex,
          globalEmailNotifier, config>>

\* the package-level email notifier and its callers
emailVars == <<epc, emailMutex, globalEmailNotifier, config>>

\* the aggregator and its directory
logVars == <<pc, closed, ctxDone, closeMutex, batchMutex, mutex, batchBuffer,
             currentFileID, currentOffset, lastRotation, aggregateFile,
             writer, files, indexQueue, queueClosed, doneClosed, indexDB,
             now, entry, snap, batchToWrite, fret, ferr, ncalls, results,
             closeRet, panicked, atClose, gzFiles, mfiles, opened>>

\* what only maintenance and initializeFile change
dirVars == <<gzFiles, mfiles, opened>>

aggVars == <<closed, ctxDone, batchBuffer, currentFileID, currentOffset,
             lastRotation, aggregateFile, writer, files, indexQueue,
             queueClosed, doneClosed, indexDB>>

(* ------------------------------------------------------------ pure helpers *)
RECURSIVE SumSizes(_)
SumSizes(s) == IF s = <<>> THEN 0 ELSE Head(s).size + SumSizes(Tail(s))

\* len(line) of flushBatch: the encoded record plus the newline
LineLen(e) == e.size

\* stat.Size() of a shard
FileSize(f) == SumSizes(files[f].lines)

\* byte position at which line i of a shard starts
LineStart(lines, i) == SumSizes(SubSeq(lines, 1, i - 1))

NoEntry ==
    [id |-> 0, producer |-> NoProc, size |-> 0, TraceID |-> "",
     Timestamp |-> 0, FileID |-> <<0, 0>>, Offset |-> 0]

\* fmt.Sprintf("%s_%s_%03d", service, day, seq)
FileIDOf(day, seq) == <<day, seq>>

\* getFileSequence: the number of uncompressed same-day shards plus one
getFileSequence(dir, day) ==
    Cardinality({f \in DOMAIN dir : f[1] = day}) + 1

\* cleanupOldFiles: every shard modified more than a week ago is removed
cleanupOldFiles(dir, today) ==
    [f \in {g \in DOMAIN dir : ~(dir[g].mtime < today - RetentionDays)} |-> dir[f]]

\* shouldRotate
shouldRotate ==
    \/ /\ aggregateFile = "open"
       /\ currentFileID \in DOMAIN files
       /\ FileSize(currentFileID) >= RotationSize
    \/ now # lastRotation

(* --------------------------------------------------------------------- Init *)
\* startBackgroundTasks: every goroutine at the top of its loop; the callers
\* of WriteLog and Close have not called yet
StartPc ==
    [p \in Procs |->
        IF p \in Producers THEN "idle"
        ELSE IF p \in Closers THEN "C_enter"
        ELSE IF p = FlushTaskProc THEN "T_wait"
        ELSE IF p = MaintProc THEN "M_wait"
        ELSE "X_wait"]

\* the package after its initialisation: var globalEmailNotifier and var
\* emailMutex are zero values, no call is in progress
EmailInit ==
    /\ epc = [e \in EmailCallers |-> "idle"]
    /\ emailMutex = [readers |-> {}, w |-> NoProc]
    /\ globalEmailNotifier = "nil"
    /\ config = [e \in EmailCallers |-> "none"]

Init ==
    /\ EmailInit
    /\ pc = StartPc
    /\ closed = FALSE
    /\ ctxDone = FALSE
    /\ closeMutex = NoProc
    /\ batchMutex = NoProc
    /\ mutex = NoProc
    /\ batchBuffer = <<>>
    /\ currentFileID = FileIDOf(1, 1)
    /\ currentOffset = 0
    /\ lastRotation = 1
    /\ aggregateFile = "open"
    /\ writer = [nil |-> FALSE, buf |-> <<>>, err |-> FALSE]
    /\ files = (FileIDOf(1, 1) :> [lines |-> <<>>, mtime |-> 1])
    /\ indexQueue = <<>>
    /\ queueClosed = FALSE
    /\ doneClosed = FALSE
    /\ indexDB = [nil |-> FALSE, open |-> TRUE, trace_id |-> [t \in {} |-> 0]]
    /\ now = 1
    /\ entry = [p \in Producers \cup Workers |-> NoEntry]
    /\ snap = [p \in Producers |-> <<>>]
    /\ batchToWrite = [p \in Flushers |-> <<>>]
    /\ fret = [p \in Flushers |-> "none"]
    /\ ferr = [p \in Flushers |-> "nil"]
    /\ ncalls = 0
    /\ results = [r \in RecordIds |-> "none"]
    /\ closeRet = [c \in Closers |-> "none"]
    /\ panicked = FALSE
    /\ atClose = [began |-> FALSE, buffer |-> <<>>, results |-> [r \in RecordIds |-> "none"]]
    /\ gzFiles = [f \in {} |-> 0]
    /\ mfiles = [todo |-> {}, cur |-> <<0, 0>>]
    /\ opened = <<[id |-> FileIDOf(1, 1), fresh |-> TRUE]>>

(* ---------------------------------------------------------- bufio.Writer *)
\* writer.Flush() returns nil: no sticky error, and either nothing is
\* buffered or the underlying file still accepts the write
WriterFlushOk ==
    /\ ~writer.err
    /\ (writer.buf = <<>> \/ aggregateFile = "open")

\* the writer after Flush(): the buffer is handed to the file, or the write
\* error of the closed file becomes the writer's sticky error
FlushedWriter ==
    IF writer.err \/ writer.buf = <<>> THEN writer
    ELSE IF aggregateFile = "open" THEN [writer EXCEPT !.buf = <<>>]
    ELSE [writer EXCEPT !.err = TRUE]

\* the directory after Flush(): the buffered lines are appended to the shard
FlushedFiles ==
    IF WriterFlushOk /\ writer.buf # <<>> /\ currentFileID \in DOMAIN files
    THEN [files EXCEPT ![currentFileID] =
             [lines |-> @.lines \o writer.buf, mtime |-> now]]
    ELSE files

(* ---------------------------------------------------------------- WriteLog *)
\* return from WriteLog with batchMutex held (defer Unlock); the parameter
\* goes out of scope
WriteLogReturn(p, err) ==
    /\ batchMutex' = NoProc
    /\ results' = [results EXCEPT ![entry[p].id] = err]
    /\ entry' = [entry EXCEPT ![p] = NoEntry]
    /\ ferr' = [ferr EXCEPT ![p] = "nil"]
    /\ pc' = [pc EXCEPT ![p] = "idle"]

\* line 261 with the closed check left out
WriteLogSeesClosedSkipped == FALSE

\* line 261: if la.closed
WriteLogSeesClosed == closed

\* the producers are interchangeable: the one that calls WriteLog first is
\* numbered 1
WriteLogTurn(p) == ncalls = 0 => p[2] = 1

\* lines 258-265: the closed check under closeMutex; the record of the call
\* carries one of the given trace ids
WriteLogCall(p, traces) ==
    /\ ~panicked
    /\ pc[p] = "idle"
    /\ ncalls < MaxRecords
    /\ WriteLogTurn(p)
    /\ closeMutex = NoProc
    /\ \E s \in MsgSizes(ncalls + 1), t \in traces :
          LET id == ncalls + 1 IN
          /\ ncalls' = ncalls + 1
          /\ IF WriteLogSeesClosed
             THEN /\ results' = [results EXCEPT ![id] = "closed"]
                  /\ pc' = pc
                  /\ entry' = entry
             ELSE /\ results' = results
                  /\ pc' = [pc EXCEPT ![p] = "W_lock"]
                  /\ entry' = [entry EXCEPT ![p] =
                         [id |-> id, producer |-> p, size |-> s,
                          TraceID |-> t, Timestamp |-> now,
                          FileID |-> <<0, 0>>, Offset |-> 0]]
    /\ UNCHANGED <<emailVars, dirVars, aggVars, closeMutex, batchMutex, mutex, now, snap,
                   batchToWrite, fret, ferr, closeRet, panicked, atClose>>

\* WriteLog with a record that carries a trace id
WriteLogEnter(p) == WriteLogCall(p, TraceIDs)

\* WriteLog with any record: the trace id is optional, "" is the unset one
WriteLogEnterAny(p) == WriteLogCall(p, TraceIDs \cup {""})

\* lines 267-275: batchMutex.Lock and the stamp of the record
WriteLogStamp(p) ==
    /\ ~panicked
    /\ pc[p] = "W_lock"
    /\ batchMutex = NoProc
    /\ batchMutex' = p
    /\ entry' = [entry EXCEPT ![p].FileID = currentFileID,
                              ![p].Offset = currentOffset]
    /\ pc' = [pc EXCEPT ![p] = "W_append"]
    /\ UNCHANGED <<emailVars, dirVars, aggVars, closeMutex, mutex, now, snap, batchToWrite, fret,
                   ferr, ncalls, results, closeRet, panicked, atClose>>

\* line 278, first half: append reads the slice header
WriteLogAppendRead(p) ==
    /\ ~panicked
    /\ pc[p] = "W_append"
    /\ snap' = [snap EXCEPT ![p] = batchBuffer]
    /\ pc' = [pc EXCEPT ![p] = "W_store"]
    /\ UNCHANGED <<emailVars, dirVars, aggVars, closeMutex, batchMutex, mutex, now, entry,
                   batchToWrite, fret, ferr, ncalls, results,
                   closeRet, panicked, atClose>>

\* line 278, second half: the element and the new header are stored
WriteLogAppendStore(p) ==
    /\ ~panicked
    /\ pc[p] = "W_store"
    /\ batchBuffer' = Append(snap[p], entry[p])
    /\ snap' = [snap EXCEPT ![p] = <<>>]
    /\ pc' = [pc EXCEPT ![p] = "W_rotate"]
    /\ UNCHANGED <<emailVars, dirVars, closed, ctxDone, currentFileID, currentOffset, lastRotation,
                   aggregateFile, writer, files, indexQueue, queueClosed,
                   doneClosed, indexDB, closeMutex, batchMutex, mutex, now,
                   entry, batchToWrite, fret, ferr, ncalls, results,
                   closeRet, panicked, atClose>>

\* lines 281 and 420: shouldRotate, and rotateFile's call of flushBatch
WriteLogShouldRotate(p) ==
    /\ ~panicked
    /\ pc[p] = "W_rotate"
    /\ IF shouldRotate
       THEN /\ pc' = [pc EXCEPT ![p] = "F_len"]
            /\ fret' = [fret EXCEPT ![p] = "R_close"]
       ELSE /\ pc' = [pc EXCEPT ![p] = "W_size"]
            /\ fret' = fret
    /\ UNCHANGED <<emailVars, dirVars, aggVars, closeMutex, batchMutex, mutex, now, entry, snap,
                   batchToWrite, ferr, ncalls, results, closeRet,
                   panicked, atClose>>

\* rotateFile that takes la.mutex for the close and keeps it for the call of
\* initializeFile
RotateCloseLocked(p) ==
    /\ ~panicked
    /\ pc[p] = "R_close"
    /\ mutex = NoProc
    /\ mutex' = p
    /\ pc' = [pc EXCEPT ![p] = "R_init"]
    /\ UNCHANGED <<emailVars, dirVars, closed, ctxDone, batchBuffer, currentFileID,
                   currentOffset, lastRotation, aggregateFile, writer, files,
                   indexQueue, queueClosed, doneClosed, indexDB, closeMutex,
                   batchMutex, now, entry, snap, batchToWrite, fret, ferr,
                   ncalls, results, closeRet, panicked, atClose>>

\* lines 420-440 of rotateFile after its flushBatch: Flush, Close of the
\* current file and cleanupOldFiles, all without la.mutex
RotateClose(p) ==
    /\ ~panicked
    /\ pc[p] = "R_close"
    /\ IF ferr[p] # "nil"
       THEN /\ WriteLogReturn(p, "rotateErr")
            /\ UNCHANGED <<writer, files, aggregateFile>>
       ELSE IF ~writer.nil /\ ~WriterFlushOk
       THEN /\ writer' = FlushedWriter
            /\ WriteLogReturn(p, "rotateErr")
            /\ UNCHANGED <<files, aggregateFile>>
       ELSE IF aggregateFile = "closed"
       THEN /\ writer' = IF writer.nil THEN writer ELSE FlushedWriter
            /\ files' = IF writer.nil THEN files ELSE FlushedFiles
            /\ WriteLogReturn(p, "rotateErr")
            /\ UNCHANGED aggregateFile
       ELSE /\ writer' = IF writer.nil THEN writer ELSE FlushedWriter
            /\ files' = cleanupOldFiles(IF writer.nil THEN files ELSE FlushedFiles, now)
            /\ aggregateFile' = IF aggregateFile = "open" THEN "closed" ELSE aggregateFile
            /\ pc' = [pc EXCEPT ![p] = "R_init"]
            /\ UNCHANGED <<batchMutex, results, entry, ferr>>
    /\ UNCHANGED <<emailVars, dirVars, closed, ctxDone, batchBuffer, currentFileID, currentOffset,
                   lastRotation, indexQueue, queueClosed, doneClosed, indexDB,
                   closeMutex, mutex, now, snap, batchToWrite, fret,
                   ncalls, closeRet, panicked, atClose>>

\* initializeFile returns an error: the Flush fails, or the Close of a file
\* that is already closed fails (lines 203-212)
initializeFileFails ==
    \/ ~writer.nil /\ ~WriterFlushOk
    \/ aggregateFile = "closed"

\* lines 443-449: initializeFile under la.mutex, then lastRotation
RotateInit(p) ==
    /\ ~panicked
    /\ pc[p] = "R_init"
    /\ mutex = NoProc
    /\ IF initializeFileFails
       THEN /\ writer' = IF writer.nil THEN writer ELSE FlushedWriter
            /\ files' = IF writer.nil THEN files ELSE FlushedFiles
            /\ WriteLogReturn(p, "rotateErr")
            /\ UNCHANGED <<currentFileID, currentOffset, aggregateFile,
                           lastRotation, opened>>
       ELSE LET dir == IF writer.nil THEN files ELSE FlushedFiles
                id == FileIDOf(now, getFileSequence(dir, now))
            IN  /\ currentFileID' = id
                /\ files' = IF id \in DOMAIN dir THEN dir
                            ELSE [f \in DOMAIN dir \cup {id} |->
                                    IF f = id THEN [lines |-> <<>>, mtime |-> now]
                                    ELSE dir[f]]
                /\ currentOffset' = IF id \in DOMAIN dir
                                    THEN SumSizes(dir[id].lines) ELSE 0
                /\ aggregateFile' = "open"
                /\ writer' = [nil |-> FALSE, buf |-> <<>>, err |-> FALSE]
                /\ lastRotation' = now
                /\ opened' = Append(opened, [id |-> id,
                                             fresh |-> id \notin DOMAIN dir])
                /\ pc' = [pc EXCEPT ![p] = "W_size"]
                /\ UNCHANGED <<batchMutex, results, entry, ferr>>
    /\ UNCHANGED <<emailVars, gzFiles, mfiles, closed, ctxDone, batchBuffer, indexQueue,
                   queueClosed, doneClosed, indexDB, closeMutex, mutex, now, snap,
                   batchToWrite, fret, ncalls, closeRet,
                   panicked, atClose>>

\* lines 288-292: the threshold flush, or return nil
WriteLogSize(p) ==
    /\ ~panicked
    /\ pc[p] = "W_size"
    /\ IF Len(batchBuffer) >= BatchSize
       THEN /\ pc' = [pc EXCEPT ![p] = "F_len"]
            /\ fret' = [fret EXCEPT ![p] = "W_ret"]
            /\ UNCHANGED <<batchMutex, results, entry, ferr>>
       ELSE /\ WriteLogReturn(p, "ok")
            /\ fret' = fret
    /\ UNCHANGED <<emailVars, dirVars, aggVars, closeMutex, mutex, now, snap, batchToWrite,
                   ncalls, closeRet, panicked, atClose>>

\* line 289: return la.flushBatch()
WriteLogFlushed(p) ==
    /\ ~panicked
    /\ pc[p] = "W_ret"
    /\ WriteLogReturn(p, IF ferr[p] = "nil" THEN "ok" ELSE ferr[p])
    /\ UNCHANGED <<emailVars, dirVars, aggVars, closeMutex, mutex, now, snap, batchToWrite,
                   fret, ncalls, closeRet, panicked, atClose>>

(* -------------------------------------------------------------- flushBatch *)
\* flushBatch returns err to its caller; flushTask (line 510) and Close
\* (line 643) drop the value
FlushResult(q, err) ==
    /\ ferr' = [ferr EXCEPT ![q] =
                   IF fret[q] \in {"T_wait", "C_unbatch"} THEN "nil" ELSE err]
    /\ pc' = [pc EXCEPT ![q] = fret[q]]
    /\ fret' = [fret EXCEPT ![q] = "none"]

\* return from flushBatch after la.mutex was taken (defer Unlock)
FlushReturn(q, err) ==
    /\ mutex' = NoProc
    /\ FlushResult(q, err)

\* lines 297-299: the length check, before la.mutex is taken
FlushLen(q) ==
    /\ ~panicked
    /\ pc[q] = "F_len"
    /\ IF Len(batchBuffer) = 0
       THEN FlushResult(q, "nil")
       ELSE /\ pc' = [pc EXCEPT ![q] = "F_lock"]
            /\ UNCHANGED <<ferr, fret>>
    /\ UNCHANGED <<emailVars, dirVars, aggVars, closeMutex, batchMutex, mutex, now, entry, snap,
                   batchToWrite, ncalls, results, closeRet, panicked, atClose>>

\* lines 301-306: la.mutex.Lock, make and copy of the batch
FlushCopy(q) ==
    /\ ~panicked
    /\ pc[q] = "F_lock"
    /\ mutex = NoProc
    /\ mutex' = q
    /\ batchToWrite' = [batchToWrite EXCEPT ![q] = batchBuffer]
    /\ pc' = [pc EXCEPT ![q] = "F_reset"]
    /\ UNCHANGED <<emailVars, dirVars, aggVars, closeMutex, batchMutex, now, entry, snap, fret,
                   ferr, ncalls, results, closeRet, panicked, atClose>>

\* line 309: la.batchBuffer = la.batchBuffer[:0]
FlushReset(q) ==
    /\ ~panicked
    /\ pc[q] = "F_reset"
    /\ batchBuffer' = <<>>
    /\ pc' = [pc EXCEPT ![q] = "F_write"]
    /\ UNCHANGED <<emailVars, dirVars, closed, ctxDone, currentFileID, currentOffset, lastRotation,
                   aggregateFile, writer, files, indexQueue, queueClosed,
                   doneClosed, indexDB, closeMutex, batchMutex, mutex, now,
                   entry, snap, batchToWrite, fret, ferr, ncalls, results,
                   closeRet, panicked, atClose>>

\* lines 312-336: one iteration of the loop: Write, the offset update and the
\* select on the index queue.  A select with several ready cases takes any.
FlushWrite(q) ==
    /\ ~panicked
    /\ pc[q] = "F_write"
    /\ batchToWrite[q] # <<>>
    /\ LET e == Head(batchToWrite[q]) IN
       IF writer.nil
       THEN /\ panicked' = TRUE
            /\ UNCHANGED <<pc, mutex, ferr, fret, writer, currentOffset,
                           indexQueue, batchToWrite>>
       ELSE IF writer.err
       THEN /\ FlushReturn(q, "writeErr")
            /\ batchToWrite' = [batchToWrite EXCEPT ![q] = <<>>]
            /\ UNCHANGED <<writer, currentOffset, indexQueue, panicked>>
       ELSE /\ writer' = [writer EXCEPT !.buf = Append(@, e)]
            /\ currentOffset' = currentOffset + LineLen(e)
            /\ \/ /\ ~queueClosed
                  /\ Len(indexQueue) < QueueCap
                  /\ indexQueue' = Append(indexQueue, e)
                  /\ batchToWrite' = [batchToWrite EXCEPT ![q] = Tail(@)]
                  /\ UNCHANGED <<pc, mutex, ferr, fret, panicked>>
               \/ /\ queueClosed
                  /\ panicked' = TRUE
                  /\ UNCHANGED <<pc, mutex, ferr, fret, indexQueue,
                                 batchToWrite>>
               \/ /\ ctxDone
                  /\ FlushReturn(q, "ctxErr")
                  /\ batchToWrite' = [batchToWrite EXCEPT ![q] = <<>>]
                  /\ UNCHANGED <<indexQueue, panicked>>
               \/ /\ ~ctxDone
                  /\ ~queueClosed
                  /\ Len(indexQueue) >= QueueCap
                  /\ batchToWrite' = [batchToWrite EXCEPT ![q] = Tail(@)]
                  /\ UNCHANGED <<pc, mutex, ferr, fret, indexQueue, panicked>>
    /\ UNCHANGED <<emailVars, dirVars, closed, ctxDone, batchBuffer, currentFileID, lastRotation,
                   aggregateFile, files, queueClosed, doneClosed, indexDB,
                   closeMutex, batchMutex, now, entry, snap, ncalls,
                   results, closeRet, atClose>>

\* lines 338-343: writer.Flush after the loop
FlushFlush(q) ==
    /\ ~panicked
    /\ pc[q] = "F_write"
    /\ batchToWrite[q] = <<>>
    /\ IF writer.nil
       THEN /\ panicked' = TRUE
            /\ UNCHANGED <<pc, mutex, ferr, fret, writer, files>>
       ELSE /\ writer' = FlushedWriter
            /\ files' = FlushedFiles
            /\ FlushReturn(q, IF WriterFlushOk THEN "nil" ELSE "flushErr")
            /\ UNCHANGED panicked
    /\ UNCHANGED <<emailVars, dirVars, closed, ctxDone, batchBuffer, currentFileID, currentOffset,
                   lastRotation, aggregateFile, indexQueue, queueClosed,
                   doneClosed, indexDB, closeMutex, batchMutex, now, entry,
                   snap, batchToWrite, ncalls, results, closeRet,
                   atClose>>

(* --------------------------------------------------------------- flushTask *)
\* lines 507-512: the ticker fires and flushTask calls flushBatch
FlushTaskTick ==
    /\ ~panicked
    /\ pc[FlushTaskProc] = "T_wait"
    /\ pc' = [pc EXCEPT ![FlushTaskProc] = "F_len"]
    /\ fret' = [fret EXCEPT ![FlushTaskProc] = "T_wait"]
    /\ UNCHANGED <<emailVars, dirVars, aggVars, closeMutex, batchMutex, mutex, now, entry, snap,
                   batchToWrite, ferr, ncalls, results, closeRet, panicked, atClose>>

\* flushTask without the ctx.Done case of its select
FlushTaskNoCancelCase ==
    /\ pc[FlushTaskProc] = "T_wait"
    /\ FALSE
    /\ UNCHANGED vars

\* lines 513-514: the context is cancelled and flushTask returns
FlushTaskExit ==
    /\ ~panicked
    /\ pc[FlushTaskProc] = "T_wait"
    /\ ctxDone
    /\ pc' = [pc EXCEPT ![FlushTaskProc] = "T_done"]
    /\ UNCHANGED <<emailVars, dirVars, aggVars, closeMutex, batchMutex, mutex, now, entry, snap,
                   batchToWrite, fret, ferr, ncalls, results, closeRet,
                   panicked, atClose>>

(* ------------------------------------------------------------- indexWorker *)
\* addToIndex: the posting "<FileID>:<Offset>" is put under the trace id
addToIndex(db, e) ==
    IF e.TraceID # ""
    THEN [db EXCEPT !.trace_id =
            [t \in DOMAIN @ \cup {e.TraceID} |->
                IF t = e.TraceID THEN <<e.FileID, e.Offset>> ELSE @[t]]]
    ELSE db

\* line 492: a record, or the zero value of the closed channel, is received
IndexWorkerReceive(w) ==
    /\ ~panicked
    /\ pc[w] = "X_wait"
    /\ indexQueue # <<>> \/ queueClosed
    /\ indexQueue' = IF indexQueue # <<>> THEN Tail(indexQueue) ELSE indexQueue
    /\ entry' = [entry EXCEPT ![w] = IF indexQueue # <<>> THEN Head(indexQueue)
                                     ELSE NoEntry]
    /\ pc' = [pc EXCEPT ![w] = "X_update"]
    /\ UNCHANGED <<emailVars, dirVars, closed, ctxDone, batchBuffer, currentFileID,
                   currentOffset, lastRotation, aggregateFile, writer, files,
                   queueClosed, doneClosed, indexDB, closeMutex, batchMutex,
                   mutex, now, snap, batchToWrite, fret, ferr, ncalls,
                   results, closeRet, panicked, atClose>>

\* lines 493-496: addToIndex in its own transaction; Update on the nil store
\* panics, Update on the closed store returns an error that is only logged
IndexWorkerUpdate(w) ==
    /\ ~panicked
    /\ pc[w] = "X_update"
    /\ IF indexDB.nil
       THEN /\ panicked' = TRUE
            /\ UNCHANGED <<indexDB, pc, entry>>
       ELSE /\ panicked' = panicked
            /\ indexDB' = IF indexDB.open THEN addToIndex(indexDB, entry[w])
                          ELSE indexDB
            /\ pc' = [pc EXCEPT ![w] = "X_wait"]
            /\ entry' = [entry EXCEPT ![w] = NoEntry]
    /\ UNCHANGED <<emailVars, dirVars, closed, ctxDone, batchBuffer, currentFileID,
                   currentOffset, lastRotation, aggregateFile, writer, files,
                   indexQueue, queueClosed, doneClosed, closeMutex,
                   batchMutex, mutex, now, snap, batchToWrite, fret, ferr,
                   ncalls, results, closeRet, atClose>>

\* lines 497-498: the context is cancelled and the worker returns
IndexWorkerExit(w) ==
    /\ ~panicked
    /\ pc[w] = "X_wait"
    /\ ctxDone
    /\ pc' = [pc EXCEPT ![w] = "X_done"]
    /\ UNCHANGED <<emailVars, dirVars, aggVars, closeMutex, batchMutex, mutex, now, entry, snap,
                   batchToWrite, fret, ferr, ncalls, results, closeRet,
                   panicked, atClose>>

(* -------------------------------------------------------------------- Close *)
\* line 626 with the closed check left out
CloseSeesClosedSkipped == FALSE

\* line 626: if la.closed
CloseSeesClosed == closed

\* the callers of Close are interchangeable and closeMutex serialises them:
\* they are numbered in the order in which they get closeMutex
CloseTurn(c) ==
    \A d \in Closers : d[2] < c[2] => pc[d] # "C_enter"

\* lines 623-632: closeMutex.Lock, the closed check, closed = true, cancel()
CloseEnter(c) ==
    /\ ~panicked
    /\ pc[c] = "C_enter"
    /\ closeMutex = NoProc
    /\ CloseTurn(c)
    /\ IF CloseSeesClosed
       THEN /\ closeRet' = [closeRet EXCEPT ![c] = "ok"]
            /\ pc' = [pc EXCEPT ![c] = "C_done"]
            /\ UNCHANGED <<closeMutex, closed, ctxDone, atClose>>
       ELSE /\ closeMutex' = c
            /\ closed' = TRUE
            /\ ctxDone' = TRUE
            /\ atClose' = [began |-> TRUE, buffer |-> batchBuffer,
                            results |-> results]
            /\ pc' = [pc EXCEPT ![c] = "C_wait"]
            /\ UNCHANGED closeRet
    /\ UNCHANGED <<emailVars, dirVars, batchBuffer, currentFileID, currentOffset, lastRotation,
                   aggregateFile, writer, files, indexQueue, queueClosed,
                   doneClosed, indexDB, batchMutex, mutex, now, entry, snap,
                   batchToWrite, fret, ferr, ncalls, results, panicked>>

\* lines 635-639: the wait ends when done is closed or the timer fires
CloseWait(c) ==
    /\ ~panicked
    /\ pc[c] = "C_wait"
    /\ pc' = [pc EXCEPT ![c] = "C_batch"]
    /\ UNCHANGED <<emailVars, dirVars, aggVars, closeMutex, batchMutex, mutex, now, entry, snap,
                   batchToWrite, fret, ferr, ncalls, results, closeRet,
                   panicked, atClose>>

\* lines 642-643: batchMutex.Lock and the call of flushBatch
CloseLockBatch(c) ==
    /\ ~panicked
    /\ pc[c] = "C_batch"
    /\ batchMutex = NoProc
    /\ batchMutex' = c
    /\ pc' = [pc EXCEPT ![c] = "F_len"]
    /\ fret' = [fret EXCEPT ![c] = "C_unbatch"]
    /\ UNCHANGED <<emailVars, dirVars, aggVars, closeMutex, mutex, now, entry, snap, batchToWrite,
                   ferr, ncalls, results, closeRet, panicked, atClose>>

\* line 644: batchMutex.Unlock; the result of flushBatch is dropped
CloseUnlockBatch(c) ==
    /\ ~panicked
    /\ pc[c] = "C_unbatch"
    /\ batchMutex' = NoProc
    /\ pc' = [pc EXCEPT ![c] = "C_file"]
    /\ UNCHANGED <<emailVars, dirVars, aggVars, closeMutex, mutex, now, entry, snap, batchToWrite,
                   fret, ferr, ncalls, results, closeRet, panicked, atClose>>

\* lines 647-656: under la.mutex the writer is flushed and set to nil, the
\* file is closed and set to nil
CloseFile(c) ==
    /\ ~panicked
    /\ pc[c] = "C_file"
    /\ mutex = NoProc
    /\ files' = IF writer.nil THEN files ELSE FlushedFiles
    /\ writer' = [nil |-> TRUE, buf |-> <<>>, err |-> FALSE]
    /\ aggregateFile' = "nil"
    /\ pc' = [pc EXCEPT ![c] = "C_end"]
    /\ UNCHANGED <<emailVars, dirVars, closed, ctxDone, batchBuffer, currentFileID, currentOffset,
                   lastRotation, indexQueue, queueClosed, doneClosed, indexDB,
                   closeMutex, batchMutex, mutex, now, entry, snap,
                   batchToWrite, fret, ferr, ncalls, results, closeRet,
                   panicked, atClose>>

\* lines 659-670: the index store is closed and set to nil, the channels are
\* closed, closeMutex is released
CloseEnd(c) ==
    /\ ~panicked
    /\ pc[c] = "C_end"
    /\ indexDB' = [indexDB EXCEPT !.nil = TRUE, !.open = FALSE]
    /\ IF queueClosed \/ doneClosed
       THEN /\ panicked' = TRUE
            /\ UNCHANGED <<queueClosed, doneClosed, closeMutex, closeRet, pc>>
       ELSE /\ queueClosed' = TRUE
            /\ doneClosed' = TRUE
            /\ closeMutex' = NoProc
            /\ closeRet' = [closeRet EXCEPT ![c] = "ok"]
            /\ pc' = [pc EXCEPT ![c] = "C_done"]
            /\ UNCHANGED panicked
    /\ UNCHANGED <<emailVars, dirVars, closed, ctxDone, batchBuffer, currentFileID, currentOffset,
                   lastRotation, aggregateFile, writer, files, indexQueue,
                   batchMutex, mutex, now, entry, snap, batchToWrite, fret,
                   ferr, ncalls, results, atClose>>

(* -------------------------------------------------------------------- clock *)
\* midnight passes: time.Now() is on the next calendar day
AdvanceDay ==
    /\ ~panicked
    /\ now < MaxDay
    /\ now' = now + 1
    /\ UNCHANGED <<emailVars, dirVars, pc, aggVars, closeMutex, batchMutex, mutex, entry, snap,
                   batchToWrite, fret, ferr, ncalls, results, closeRet,
                   panicked, atClose>>

(* -------------------------------------------------------------- maintenance *)
NoFile == <<0, 0>>

\* stat.ModTime().Before(time.Now() minus days): the clock moves in whole
\* days; with days = 0 the cutoff is the moment of the call, which is later
\* than every modification made before the call
ModifiedBefore(mtime, days) ==
    IF days = 0 THEN mtime <= now ELSE mtime < now - days

\* a directory without the files of S
Without(dir, S) == [f \in DOMAIN dir \ S |-> dir[f]]

\* filepath.Glob returns the names sorted: the first of a set of shards
FirstFile(S) ==
    CHOOSE f \in S : \A g \in S :
        f[1] < g[1] \/ (f[1] = g[1] /\ f[2] <= g[2])

\* lines 526-528 and 542-552: the maintenance ticker fires, compressOldFiles
\* takes compressMutex and lists the *.log files of the service
MaintenanceTick ==
    /\ ~panicked
    /\ pc[MaintProc] = "M_wait"
    /\ pc' = [pc EXCEPT ![MaintProc] = "M_compress"]
    /\ mfiles' = [todo |-> DOMAIN files, cur |-> NoFile]
    /\ UNCHANGED <<emailVars, aggVars, closeMutex, batchMutex, mutex, now, entry, snap,
                   batchToWrite, fret, ferr, ncalls, results, closeRet,
                   panicked, atClose, gzFiles, opened>>

\* lines 554-570 and 577-611: one file of the list: the current shard is
\* skipped, a file that is gone is skipped, an old file is copied to its
\* .gz file (os.Create truncates a .gz file that exists)
CompressNext ==
    /\ ~panicked
    /\ pc[MaintProc] = "M_compress"
    /\ mfiles.cur = NoFile
    /\ mfiles.todo # {}
    /\ LET f == FirstFile(mfiles.todo) IN
       IF /\ f # currentFileID
          /\ f \in DOMAIN files
          /\ ModifiedBefore(files[f].mtime, CompressAfterDays)
       THEN /\ gzFiles' = [g \in DOMAIN gzFiles \cup {f} |->
                             IF g = f THEN [lines |-> files[f].lines,
                                            mtime |-> now]
                             ELSE gzFiles[g]]
            /\ mfiles' = [mfiles EXCEPT !.todo = @ \ {f}, !.cur = f]
       ELSE /\ gzFiles' = gzFiles
            /\ mfiles' = [mfiles EXCEPT !.todo = @ \ {f}]
    /\ UNCHANGED <<emailVars, pc, aggVars, closeMutex, batchMutex, mutex, now, entry,
                   snap, batchToWrite, fret, ferr, ncalls, results, closeRet,
                   panicked, atClose, opened>>

\* lines 613-616: compressFile removes the original
CompressRemove ==
    /\ ~panicked
    /\ pc[MaintProc] = "M_compress"
    /\ mfiles.cur # NoFile
    /\ files' = Without(files, {mfiles.cur})
    /\ mfiles' = [mfiles EXCEPT !.cur = NoFile]
    /\ UNCHANGED <<emailVars, pc, closed, ctxDone, batchBuffer, currentFileID,
                   currentOffset, lastRotation, aggregateFile, writer,
                   indexQueue, queueClosed, doneClosed, indexDB, closeMutex,
                   batchMutex, mutex, now, entry, snap, batchToWrite, fret,
                   ferr, ncalls, results, closeRet, panicked, atClose,
                   gzFiles, opened>>

\* lines 530-533: the list is done, cleanupOldFiles ends the cycle
MaintenanceCleanup ==
    /\ ~panicked
    /\ pc[MaintProc] = "M_compress"
    /\ mfiles.cur = NoFile
    /\ mfiles.todo = {}
    /\ files' = cleanupOldFiles(files, now)
    /\ pc' = [pc EXCEPT ![MaintProc] = "M_wait"]
    /\ UNCHANGED <<emailVars, closed, ctxDone, batchBuffer, currentFileID,
                   currentOffset, lastRotation, aggregateFile, writer,
                   indexQueue, queueClosed, doneClosed, indexDB, closeMutex,
                   batchMutex, mutex, now, entry, snap, batchToWrite, fret,
                   ferr, ncalls, results, closeRet, panicked, atClose,
                   gzFiles, mfiles, opened>>

\* lines 534-535: the context is cancelled and maintenanceTask returns
MaintenanceExit ==
    /\ ~panicked
    /\ pc[MaintProc] = "M_wait"
    /\ ctxDone
    /\ pc' = [pc EXCEPT ![MaintProc] = "M_done"]
    /\ UNCHANGED <<emailVars, dirVars, aggVars, closeMutex, batchMutex, mutex, now, entry,
                   snap, batchToWrite, fret, ferr, ncalls, results, closeRet,
                   panicked, atClose>>

\* CleanupOldLogs(logDir, daysToKeep): every *.log file modified before the
\* cutoff is removed
CleanupDays == {0, 1}

CleanupOldLogs(days) ==
    /\ ~panicked
    /\ files' = Without(files, {f \in DOMAIN files :
                                  ModifiedBefore(files[f].mtime, days)})
    /\ files' # files
    /\ UNCHANGED <<emailVars, pc, closed, ctxDone, batchBuffer, currentFileID,
                   currentOffset, lastRotation, aggregateFile, writer,
                   indexQueue, queueClosed, doneClosed, indexDB, closeMutex,
                   batchMutex, mutex, now, entry, snap, batchToWrite, fret,
                   ferr, ncalls, results, closeRet, panicked, atClose,
                   gzFiles, mfiles, opened>>

\* days pass: as many as make a file written today older than compress-after,
\* or older than the retention period. A maintenance cycle is one listing of
\* the directory: midnight does not pass inside it
IdleDays ==
    /\ ~panicked
    /\ pc[MaintProc] # "M_compress"
    /\ \E k \in {CompressAfterDays + 1, RetentionDays + 1} :
          /\ now + k <= MaxNow
          /\ now' = now + k
    /\ UNCHANGED <<emailVars, dirVars, pc, aggVars, closeMutex, batchMutex, mutex, entry,
                   snap, batchToWrite, fret, ferr, ncalls, results, closeRet,
                   panicked, atClose>>

(* ------------------------------------------------------------------ restart *)
\* the service has shut down (Close has returned, no call is in progress)
\* and starts again on the same directory: NewLogAggregator, lines 113-195,
\* with initializeFile on a fresh aggregator and the index store reopened
Restart ==
    /\ ~panicked
    /\ \E c \in Closers : closeRet[c] = "ok"
    /\ \A p \in Producers : pc[p] = "idle"
    /\ pc[MaintProc] \in {"M_wait", "M_done"}
    /\ pc[FlushTaskProc] \in {"T_wait", "T_done"}
    /\ Len(opened) < MaxOpens
    /\ LET id == FileIDOf(now, getFileSequence(files, now)) IN
       /\ currentFileID' = id
       /\ files' = IF id \in DOMAIN files THEN files
                   ELSE [f \in DOMAIN files \cup {id} |->
                           IF f = id THEN [lines |-> <<>>, mtime |-> now]
                           ELSE files[f]]
       /\ currentOffset' = IF id \in DOMAIN files
                           THEN SumSizes(files[id].lines) ELSE 0
       /\ opened' = Append(opened, [id |-> id,
                                    fresh |-> id \notin DOMAIN files])
    /\ pc' = StartPc
    /\ closed' = FALSE
    /\ ctxDone' = FALSE
    /\ batchBuffer' = <<>>
    /\ lastRotation' = now
    /\ aggregateFile' = "open"
    /\ writer' = [nil |-> FALSE, buf |-> <<>>, err |-> FALSE]
    /\ indexQueue' = <<>>
    /\ queueClosed' = FALSE
    /\ doneClosed' = FALSE
    /\ indexDB' = [indexDB EXCEPT !.nil = FALSE, !.open = TRUE]
    /\ closeRet' = [c \in Closers |-> "none"]
    /\ atClose' = [began |-> FALSE, buffer |-> <<>>,
                   results |-> [r \in RecordIds |-> "none"]]
    /\ UNCHANGED <<emailVars, closeMutex, batchMutex, mutex, now, entry, snap,
                   batchToWrite, fret, ferr, ncalls, results, panicked,
                   gzFiles, mfiles>>

(* --------------------------------------------------------------------- Next *)
Next ==
    \/ \E p \in Producers : WriteLogEnter(p)
    \/ \E p \in Producers : WriteLogStamp(p)
    \/ \E p \in Producers : WriteLogAppendRead(p)
    \/ \E p \in Producers : WriteLogAppendStore(p)
    \/ \E p \in Producers : WriteLogShouldRotate(p)
    \/ \E p \in Producers : RotateClose(p)
    \/ \E p \in Producers : RotateInit(p)
    \/ \E p \in Producers : WriteLogSize(p)
    \/ \E p \in Producers : WriteLogFlushed(p)
    \/ \E q \in Flushers : FlushLen(q)
    \/ \E q \in Flushers : FlushCopy(q)
    \/ \E q \in Flushers : FlushReset(q)
    \/ \E q \in Flushers : FlushWrite(q)
    \/ \E q \in Flushers : FlushFlush(q)
    \/ FlushTaskTick
    \/ FlushTaskExit
    \/ \E c \in Closers : CloseEnter(c)
    \/ \E c \in Closers : CloseWait(c)
    \/ \E c \in Closers : CloseLockBatch(c)
    \/ \E c \in Closers : CloseUnlockBatch(c)
    \/ \E c \in Closers : CloseFile(c)
    \/ \E c \in Closers : CloseEnd(c)

Spec == Init /\ [][Next]_vars

(* ------------------------------------------- with the index worker pool *)
NextIndex ==
    \/ Next
    \/ \E w \in Workers : IndexWorkerReceive(w)
    \/ \E w \in Workers : IndexWorkerUpdate(w)
    \/ \E w \in Workers : IndexWorkerExit(w)

SpecIndex == Init /\ [][NextIndex]_vars

(* ---- the running service: producers, the flush ticker and the index worker
        pool; Close is not called                                            *)
NextWorkers ==
    \/ \E p \in Producers : WriteLogEnter(p)
    \/ \E p \in Producers : WriteLogStamp(p)
    \/ \E p \in Producers : WriteLogAppendRead(p)
    \/ \E p \in Producers : WriteLogAppendStore(p)
    \/ \E p \in Producers : WriteLogShouldRotate(p)
    \/ \E p \in Producers : RotateClose(p)
    \/ \E p \in Producers : RotateInit(p)
    \/ \E p \in Producers : WriteLogSize(p)
    \/ \E p \in Producers : WriteLogFlushed(p)
    \/ \E q \in Flushers : FlushLen(q)
    \/ \E q \in Flushers : FlushCopy(q)
    \/ \E q \in Flushers : FlushReset(q)
    \/ \E q \in Flushers : FlushWrite(q)
    \/ \E q \in Flushers : FlushFlush(q)
    \/ FlushTaskTick
    \/ \E w \in Workers : IndexWorkerReceive(w)
    \/ \E w \in Workers : IndexWorkerUpdate(w)

SpecWorkers == Init /\ [][NextWorkers]_vars

(* ---- producers and the index worker pool; the flush ticker does not fire,
        Close is not called, the clock may pass midnight                     *)
NextIndexed ==
    \/ \E p \in Producers : WriteLogEnter(p)
    \/ \E p \in Producers : WriteLogStamp(p)
    \/ \E p \in Producers : WriteLogAppendRead(p)
    \/ \E p \in Producers : WriteLogAppendStore(p)
    \/ \E p \in Producers : WriteLogShouldRotate(p)
    \/ \E p \in Producers : RotateClose(p)
    \/ \E p \in Producers : RotateInit(p)
    \/ \E p \in Producers : WriteLogSize(p)
    \/ \E p \in Producers : WriteLogFlushed(p)
    \/ \E q \in Producers : FlushLen(q)
    \/ \E q \in Producers : FlushCopy(q)
    \/ \E q \in Producers : FlushReset(q)
    \/ \E q \in Producers : FlushWrite(q)
    \/ \E q \in Producers : FlushFlush(q)
    \/ \E w \in Workers : IndexWorkerReceive(w)
    \/ \E w \in Workers : IndexWorkerUpdate(w)
    \/ AdvanceDay

SpecIndexed == Init /\ [][NextIndexed]_vars

(* --------------- the flush ticker does not fire; the clock may pass midnight *)
NextClose ==
    \/ \E p \in Producers : WriteLogEnter(p)
    \/ \E p \in Producers : WriteLogStamp(p)
    \/ \E p \in Producers : WriteLogAppendRead(p)
    \/ \E p \in Producers : WriteLogAppendStore(p)
    \/ \E p \in Producers : WriteLogShouldRotate(p)
    \/ \E p \in Producers : RotateClose(p)
    \/ \E p \in Producers : RotateInit(p)
    \/ \E p \in Producers : WriteLogSize(p)
    \/ \E p \in Producers : WriteLogFlushed(p)
    \/ \E q \in Flushers : FlushLen(q)
    \/ \E q \in Flushers : FlushCopy(q)
    \/ \E q \in Flushers : FlushReset(q)
    \/ \E q \in Flushers : FlushWrite(q)
    \/ \E q \in Flushers : FlushFlush(q)
    \/ \E c \in Closers : CloseEnter(c)
    \/ \E c \in Closers : CloseWait(c)
    \/ \E c \in Closers : CloseLockBatch(c)
    \/ \E c \in Closers : CloseUnlockBatch(c)
    \/ \E c \in Closers : CloseFile(c)
    \/ \E c \in Closers : CloseEnd(c)
    \/ AdvanceDay

SpecClose == Init /\ [][NextClose]_vars

(* ---- shards over days: writes, Close, restarts and maintenance; the flush
        ticker does not fire                                                   *)
NextService ==
    \/ \E p \in Producers : WriteLogEnter(p)
    \/ \E p \in Producers : WriteLogStamp(p)
    \/ \E p \in Producers : WriteLogAppendRead(p)
    \/ \E p \in Producers : WriteLogAppendStore(p)
    \/ \E p \in Producers : WriteLogShouldRotate(p)
    \/ \E p \in Producers : RotateClose(p)
    \/ \E p \in Producers : RotateInit(p)
    \/ \E p \in Producers : WriteLogSize(p)
    \/ \E p \in Producers : WriteLogFlushed(p)
    \/ \E c \in Closers : CloseEnter(c)
    \/ \E c \in Closers : CloseWait(c)
    \/ \E c \in Closers : CloseLockBatch(c)
    \/ \E c \in Closers : CloseUnlockBatch(c)
    \/ \E c \in Closers : CloseFile(c)
    \/ \E c \in Closers : CloseEnd(c)
    \/ \E q \in Flushers : FlushLen(q)
    \/ \E q \in Flushers : FlushCopy(q)
    \/ \E q \in Flushers : FlushReset(q)
    \/ \E q \in Flushers : FlushWrite(q)
    \/ \E q \in Flushers : FlushFlush(q)
    \/ MaintenanceTick
    \/ CompressNext
    \/ CompressRemove
    \/ MaintenanceCleanup
    \/ MaintenanceExit
    \/ IdleDays
    \/ Restart

SpecService == Init /\ [][NextService]_vars

(* ---- the same steps on a directory that holds the shard of an earlier run:
        the service wrote k records on day 1, was closed and has restarted  *)
EarlierRecord(i) ==
    [id |-> i, producer |-> <<"producer", 1>>,
     size |-> CHOOSE n \in MsgSizes(i) : TRUE, TraceID |-> "t1",
     Timestamp |-> 1, FileID |-> FileIDOf(1, 1), Offset |-> 0]

InitArchive ==
    /\ EmailInit
    /\ pc = StartPc
    /\ closed = FALSE
    /\ ctxDone = FALSE
    /\ closeMutex = NoProc
    /\ batchMutex = NoProc
    /\ mutex = NoProc
    /\ batchBuffer = <<>>
    /\ currentFileID = FileIDOf(1, 2)
    /\ currentOffset = 0
    /\ lastRotation = 1
    /\ aggregateFile = "open"
    /\ writer = [nil |-> FALSE, buf |-> <<>>, err |-> FALSE]
    /\ \E k \in 1..(BatchSize - 1) :
          /\ k <= MaxRecords
          /\ files = (FileIDOf(1, 1) :>
                         [lines |-> [i \in 1..k |-> EarlierRecord(i)],
                          mtime |-> 1])
                     @@ (FileIDOf(1, 2) :> [lines |-> <<>>, mtime |-> 1])
          /\ ncalls = k
          /\ results = [r \in RecordIds |-> IF r <= k THEN "ok" ELSE "none"]
    /\ indexQueue = <<>>
    /\ queueClosed = FALSE
    /\ doneClosed = FALSE
    /\ indexDB = [nil |-> FALSE, open |-> TRUE, trace_id |-> [t \in {} |-> 0]]
    /\ now = 1
    /\ entry = [p \in Producers \cup Workers |-> NoEntry]
    /\ snap = [p \in Producers |-> <<>>]
    /\ batchToWrite = [p \in Flushers |-> <<>>]
    /\ fret = [p \in Flushers |-> "none"]
    /\ ferr = [p \in Flushers |-> "nil"]
    /\ closeRet = [c \in Closers |-> "none"]
    /\ panicked = FALSE
    /\ atClose = [began |-> FALSE, buffer |-> <<>>,
                  results |-> [r \in RecordIds |-> "none"]]
    /\ gzFiles = [f \in {} |-> 0]
    /\ mfiles = [todo |-> {}, cur |-> <<0, 0>>]
    /\ opened = <<[id |-> FileIDOf(1, 1), fresh |-> TRUE],
                  [id |-> FileIDOf(1, 2), fresh |-> TRUE]>>

NextArchive ==
    \/ \E c \in Closers : CloseEnter(c)
    \/ \E c \in Closers : CloseWait(c)
    \/ \E c \in Closers : CloseLockBatch(c)
    \/ \E c \in Closers : CloseUnlockBatch(c)
    \/ \E c \in Closers : CloseFile(c)
    \/ \E c \in Closers : CloseEnd(c)
    \/ \E q \in Closers : FlushLen(q)
    \/ MaintenanceTick
    \/ CompressNext
    \/ CompressRemove
    \/ MaintenanceCleanup
    \/ MaintenanceExit
    \/ IdleDays

SpecArchive == InitArchive /\ [][NextArchive]_vars

(* ---- the directory over days without writes: maintenance, CleanupOldLogs,
        Close and restarts                                                     *)
NextMaint ==
    \/ \E q \in Closers : FlushLen(q)
    \/ \E c \in Closers : CloseEnter(c)
    \/ \E c \in Closers : CloseWait(c)
    \/ \E c \in Closers : CloseLockBatch(c)
    \/ \E c \in Closers : CloseUnlockBatch(c)
    \/ \E c \in Closers : CloseFile(c)
    \/ \E c \in Closers : CloseEnd(c)
    \/ MaintenanceTick
    \/ CompressNext
    \/ CompressRemove
    \/ MaintenanceCleanup
    \/ MaintenanceExit
    \/ \E d \in CleanupDays : CleanupOldLogs(d)
    \/ IdleDays
    \/ Restart

SpecMaint == Init /\ [][NextMaint]_vars

(* ------------------------------- Close is never called; goroutines are fair *)
ProducerStep(p) ==
    \/ WriteLogEnter(p)
    \/ WriteLogStamp(p)
    \/ WriteLogAppendRead(p)
    \/ WriteLogAppendStore(p)
    \/ WriteLogShouldRotate(p)
    \/ RotateClose(p)
    \/ RotateInit(p)
    \/ WriteLogSize(p)
    \/ WriteLogFlushed(p)
    \/ FlushLen(p)
    \/ FlushCopy(p)
    \/ FlushReset(p)
    \/ FlushWrite(p)
    \/ FlushFlush(p)

FlushTaskStep ==
    \/ FlushTaskTick
    \/ FlushLen(FlushTaskProc)
    \/ FlushCopy(FlushTaskProc)
    \/ FlushReset(FlushTaskProc)
    \/ FlushWrite(FlushTaskProc)
    \/ FlushFlush(FlushTaskProc)

NextLive ==
    \/ \E p \in Producers : ProducerStep(p)
    \/ FlushTaskStep

LiveSpec ==
    /\ Init
    /\ [][NextLive]_vars
    /\ WF_vars(FlushTaskStep)
    /\ \A p \in Producers : WF_vars(ProducerStep(p))

(* ------------------------------------------------------ what is on the disk *)
Positions ==
    UNION {{<<f, i>> : i \in 1..Len(files[f].lines)} : f \in DOMAIN files}

LineAt(pos) == files[pos[1]].lines[pos[2]]

Copies(r) == Cardinality({pos \in Positions : LineAt(pos).id = r})

OnDisk(r) == \E pos \in Positions : LineAt(pos).id = r

\* shards are ordered by (day, sequence), lines of a shard by position
Before(pos1, pos2) ==
    \/ pos1[1][1] < pos2[1][1]
    \/ pos1[1][1] = pos2[1][1] /\ pos1[1][2] < pos2[1][2]
    \/ pos1[1] = pos2[1] /\ pos1[2] < pos2[2]

\* readLogEntry: seek to the offset and decode one line; an offset that is
\* not the start of a line gives the tail of a line or nothing, an error
readLogEntry(dir, f, off) ==
    IF f \notin DOMAIN dir THEN NoEntry
    ELSE IF \E i \in 1..Len(dir[f].lines) : LineStart(dir[f].lines, i) = off
    THEN dir[f].lines[CHOOSE i \in 1..Len(dir[f].lines) :
                          LineStart(dir[f].lines, i) = off]
    ELSE NoEntry

CloseReturned == \E c \in Closers : closeRet[c] = "ok"

(* ------------------------------------------------------------------ queries *)
\* LogQuery: the trace id predicate ("" is unset), use-index, limit, offset
\* Limit and Offset are Go ints: a narrow two's complement width stands for
\* the 64 bits, MaxInt for math.MaxInt
IntBits == 5

MaxInt == 2 ^ (IntBits - 1) - 1

\* the int result of an addition of two non-negative ints
WrapInt(n) == IF n > MaxInt THEN n - 2 ^ IntBits ELSE n

\* message patterns of a query: unset, one that matches every message, one
\* that matches no message of a record (the empty line), one that does not
\* compile
Patterns == {"", ".*", "^$", "("}

Queries ==
    [TraceID : TraceIDs \cup {""}, Message : Patterns, UseIndex : BOOLEAN,
     Limit : (0..MaxRecords) \cup {MaxInt}, Offset : 0..MaxRecords]

\* regexp.MatchString(pattern, message) on the message of a record, which is
\* not empty: the match and the compile error
MatchString(pattern) ==
    [matched |-> pattern = ".*", err |-> pattern = "("]

\* matchesQuery, lines 886-888 and 905-911: the error of MatchString is
\* discarded
matchesQuery(e, q) ==
    /\ q.TraceID = "" \/ e.TraceID = q.TraceID
    /\ q.Message = "" \/ MatchString(q.Message).matched

\* queryFile: the matching lines of one shard, in file order
RECURSIVE queryFile(_, _)
queryFile(lines, q) ==
    IF lines = <<>> THEN <<>>
    ELSE (IF matchesQuery(Head(lines), q) THEN <<Head(lines)>> ELSE <<>>)
         \o queryFile(Tail(lines), q)

\* lines 812-832: the files matching *.log, newest modification first, and
\* the concatenation of their matches
RECURSIVE scanFiles(_, _, _)
scanFiles(dir, S, q) ==
    IF S = {} THEN <<>>
    ELSE LET f == CHOOSE g \in S : \A h \in S : dir[g].mtime >= dir[h].mtime
         IN  queryFile(dir[f].lines, q) \o scanFiles(dir, S \ {f}, q)

\* queryWithFileScan: the matches of all *.log files and the page of them;
\* end is the int sum of Offset and Limit, and the slice expression
\* Entries[Offset:end] panics when end is below Offset
queryWithFileScan(dir, q) ==
    LET all == scanFiles(dir, DOMAIN dir, q)
        total == Len(all)
        sum == WrapInt(q.Offset + q.Limit)
        end == IF sum > total THEN total ELSE sum
    IN  IF q.Offset >= total
        THEN [Entries |-> <<>>, Total |-> total, err |-> "nil",
              panic |-> FALSE]
        ELSE IF end < q.Offset
        THEN [Entries |-> <<>>, Total |-> 0, err |-> "nil", panic |-> TRUE]
        ELSE [Entries |-> SubSeq(all, q.Offset + 1, end), Total |-> total,
              err |-> "nil", panic |-> FALSE]

\* the query without predicates, one page holding every record
MatchAll ==
    [TraceID |-> "", Message |-> "", UseIndex |-> FALSE,
     Limit |-> MaxRecords, Offset |-> 0]

\* the encoded byte count of the records 1..k
RECURSIVE TotalBytes(_)
TotalBytes(k) ==
    IF k = 0 THEN 0 ELSE (CHOOSE n \in MsgSizes(k) : TRUE) + TotalBytes(k - 1)

\* the sum of the sizes of the shards of a directory
RECURSIVE DirBytes(_, _)
DirBytes(dir, S) ==
    IF S = {} THEN 0
    ELSE LET f == CHOOSE g \in S : TRUE
         IN  SumSizes(dir[f].lines) + DirBytes(dir, S \ {f})

\* rotateFile has run: it opened another shard or it returned its error
RotationRan ==
    \/ Len(opened) > 1
    \/ \E r \in RecordIds : results[r] = "rotateErr"

\* every record was submitted, and its WriteLog had returned, when Close began
AllWrittenThenClosed ==
    /\ CloseReturned
    /\ atClose.began
    /\ \A r \in RecordIds : atClose.results[r] \notin {"none", "closed"}

(* ------------------------------------------------------------------- claims *)

\* C1: when every WriteLog call had returned ok before Close was called, then
\* after Close has returned every record is in the shards exactly once.
C1_ExactlyOncePerRecord ==
    (/\ CloseReturned
     /\ atClose.began
     /\ \A r \in RecordIds : atClose.results[r] = "ok")
    => \A r \in RecordIds : Copies(r) = 1

\* C2: for every record on disk, reading one line at the record's stamped
\* Offset in the shard of its stamped FileID decodes to that record.
C2_StampLocatesRecord ==
    \A pos \in Positions :
        /\ LineAt(pos).FileID = pos[1]
        /\ readLogEntry(files, LineAt(pos).FileID, LineAt(pos).Offset) = LineAt(pos)

\* C3: no two distinct records on disk carry the same (FileID, Offset).
C3_StampsAreUnique ==
    \A pos1, pos2 \in Positions :
        LineAt(pos1).id # LineAt(pos2).id
        => <<LineAt(pos1).FileID, LineAt(pos1).Offset>>
           # <<LineAt(pos2).FileID, LineAt(pos2).Offset>>

\* C4: a WriteLog that begins after Close has returned returns the closed
\* error at once and leaves batch buffer, shards and index unchanged.
C4_WriteAfterCloseRejected ==
    [][(CloseReturned /\ ncalls' # ncalls)
         => /\ pc' = pc
            /\ results'[ncalls'] = "closed"
            /\ UNCHANGED <<batchBuffer, files, writer, indexDB, indexQueue>>]_vars

C4_Witness ==
    /\ CloseReturned
    /\ \E r \in RecordIds : results[r] = "closed"

\* C5: a Close that finds the aggregator closed returns ok and changes
\* nothing: no flush, no file, store or channel is touched a second time.
C5_SecondCloseNoEffect ==
    [][\A c \in Closers :
         (closed /\ pc[c] = "C_enter" /\ pc'[c] # "C_enter")
         => /\ pc'[c] = "C_done"
            /\ closeRet'[c] = "ok"
            /\ UNCHANGED <<aggVars, closeMutex, batchMutex, mutex, panicked>>]_vars

C5_Witness ==
    /\ \A c \in Closers : closeRet[c] = "ok"
    /\ Cardinality(Closers) >= 2
    /\ ~panicked

\* C6: when Close has returned, every record that was in the batch buffer
\* when Close began is in a shard and none of them is still buffered.
C6_CloseFlushesWholeBuffer ==
    (CloseReturned /\ atClose.began)
    => \A i \in 1..Len(atClose.buffer) :
          /\ OnDisk(atClose.buffer[i].id)
          /\ \A j \in 1..Len(batchBuffer) :
                batchBuffer[j].id # atClose.buffer[i].id

\* C7: every record for which WriteLog returned ok is eventually in a shard,
\* under fair scheduling of flushTask and of the producers.
C7_AcceptedEventuallyOnDisk ==
    \A r \in RecordIds : (results[r] = "ok") ~> OnDisk(r)

\* C8: the records of one producer are on disk in submission order: of two
\* lines of the same producer the earlier line is not the later submission.
C8_ProducerOrderKept ==
    \A pos1, pos2 \in Positions :
        (/\ Before(pos1, pos2)
         /\ LineAt(pos1).producer = LineAt(pos2).producer)
        => LineAt(pos1).id <= LineAt(pos2).id

\* C9: when rotateFile has run initializeFile, the aggregator has an open,
\* writable shard whose identifier differs from the previous one.
C9_RotationOpensNewShard ==
    [][\A p \in Producers :
         (pc[p] = "R_init" /\ pc'[p] # "R_init")
         => /\ aggregateFile' = "open"
            /\ ~writer'.nil /\ ~writer'.err
            /\ currentFileID' # currentFileID
            /\ results'[entry[p].id] # "rotateErr"]_vars

\* C10: after WriteLog has returned a rotation error on an open aggregator,
\* the previously open shard is still open and accepted records reach it.
C10_FailedRotationKeepsShard ==
    (~closed /\ \E r \in RecordIds : results[r] = "rotateErr")
    => /\ aggregateFile = "open"
       /\ ~writer.nil /\ ~writer.err

\* C11: rotation by size loses nothing: when all records were written, a
\* rotation has run and the aggregator was then closed, a second shard exists,
\* the sizes of the shards add up to the encoded bytes of all records and a
\* scan matching everything counts all of them.
C11_RotationBySizeLosesNothing ==
    (AllWrittenThenClosed /\ RotationRan)
    => /\ Cardinality(DOMAIN files \cup DOMAIN gzFiles) >= 2
       /\ DirBytes(files, DOMAIN files) + DirBytes(gzFiles, DOMAIN gzFiles)
            = TotalBytes(MaxRecords)
       /\ queryWithFileScan(files, MatchAll).Total = MaxRecords

\* C12: rotation by day: a record written after the calendar day has changed
\* is in no shard of an earlier day: the day of the shard that holds a record
\* is not before the day on which the record was written.
C12_DayRecordsInDayShard ==
    \A pos \in Positions : LineAt(pos).Timestamp <= pos[1][1]

\* a step of the maintenance cycle: of compressOldFiles or of the
\* cleanupOldFiles that ends it
MaintenanceStep ==
    /\ pc[MaintProc] = "M_compress"
    /\ mfiles' # mfiles \/ pc'[MaintProc] # "M_compress"

\* the step that ends a maintenance cycle
CycleEnd ==
    /\ pc[MaintProc] = "M_compress"
    /\ pc'[MaintProc] = "M_wait"

\* C13: every shard that is opened (at start, at a restart, at a rotation)
\* gets the sequence number that follows the shards created earlier on the
\* same day: the numbers created within a day are 1..n in order and no
\* identifier is created twice
C13_SequenceNumbering ==
    \A i \in 1..Len(opened) :
        opened[i].id[2] =
            1 + Cardinality({k \in 1..(i - 1) : opened[k].id[1] = opened[i].id[1]})

\* C14: no step of a maintenance cycle compresses or deletes the shard that
\* is open for writing, whatever its modification time
C14_CurrentShardUntouched ==
    [][(/\ MaintenanceStep
        /\ aggregateFile = "open"
        /\ currentFileID \in DOMAIN files)
       => /\ currentFileID \in DOMAIN files'
          /\ gzFiles' # gzFiles => mfiles'.cur # currentFileID]_vars

\* C15: when a maintenance cycle ends, no shard whose modification time is
\* older than the retention period is left in the directory, compressed or
\* uncompressed
C15_RetentionRemovesOldShards ==
    [][CycleEnd
       => /\ \A f \in DOMAIN files' :
                ~(files'[f].mtime < now - RetentionDays)
          /\ \A f \in DOMAIN gzFiles' :
                ~(gzFiles'[f].mtime < now - RetentionDays)]_vars

\* C16: no shard identifier is in the directory in both forms, and when a
\* maintenance cycle ends every shard other than the current one that is
\* older than compress-after is there in compressed form only
C16_CompressedFormOnly ==
    [][/\ DOMAIN files' \cap DOMAIN gzFiles' = {}
       /\ CycleEnd
          => \A f \in DOMAIN files' :
                f # currentFileID
                => ~(files'[f].mtime < now - CompressAfterDays)]_vars

\* C17: a record of a shard that has been compressed is returned by every
\* scan query whose predicates it matches
C17_CompressedRecordsStillFound ==
    \A f \in DOMAIN gzFiles \ DOMAIN files :
        \A i \in 1..Len(gzFiles[f].lines) :
            \A q \in Queries :
                (matchesQuery(gzFiles[f].lines[i], q) /\ ~q.UseIndex
                   /\ q.Offset = 0 /\ q.Limit >= MaxRecords)
                => \E k \in 1..Len(queryWithFileScan(files, q).Entries) :
                       queryWithFileScan(files, q).Entries[k].id
                           = gzFiles[f].lines[i].id

(* ------------------------------------------------------------ QueryLogs *)
\* canUseIndex: exactly one of the indexed predicates is set (the trace id
\* is the one predicate of the queries here)
canUseIndex(q) == q.TraceID # ""

\* queryWithIndex with a key without posting answered by an empty result
queryWithIndexEmptyOnMiss(dir, db, q) ==
    IF db.nil THEN [Entries |-> <<>>, err |-> "nil", panic |-> TRUE]
    ELSE IF ~db.open
    THEN [Entries |-> <<>>, err |-> "notOpen", panic |-> FALSE]
    ELSE IF q.TraceID \notin DOMAIN db.trace_id
    THEN [Entries |-> <<>>, err |-> "nil", panic |-> FALSE]
    ELSE LET p == db.trace_id[q.TraceID]
             r == readLogEntry(dir, p[1], p[2])
         IN  [Entries |-> IF r # NoEntry THEN <<r>> ELSE <<>>,
              err |-> IF r # NoEntry THEN "nil" ELSE "readErr",
              panic |-> FALSE]

\* queryWithIndex: indexDB.View on the nil store is a nil dereference, on the
\* closed store an error; a key without posting is an error; the posting
\* "<FileID>:<Offset>" is read from <FileID>.log, and a record that cannot
\* be read is an error
queryWithIndex(dir, db, q) ==
    IF db.nil THEN [Entries |-> <<>>, err |-> "nil", panic |-> TRUE]
    ELSE IF ~db.open
    THEN [Entries |-> <<>>, err |-> "notOpen", panic |-> FALSE]
    ELSE IF q.TraceID \notin DOMAIN db.trace_id
    THEN [Entries |-> <<>>, err |-> "notFound", panic |-> FALSE]
    ELSE LET p == db.trace_id[q.TraceID]
             r == readLogEntry(dir, p[1], p[2])
         IN  [Entries |-> IF r # NoEntry THEN <<r>> ELSE <<>>,
              err |-> IF r # NoEntry THEN "nil" ELSE "readErr",
              panic |-> FALSE]

\* QueryLogs with the aggregator registered as the global one: the index plan
\* when the query asks for it and canUseIndex, the scan when the index plan
\* returns an error
QueryLogs(dir, db, q) ==
    IF q.UseIndex /\ canUseIndex(q)
    THEN LET r == queryWithIndex(dir, db, q)
         IN  IF r.panic THEN [Entries |-> <<>>, Total |-> 0, err |-> "nil",
                              panic |-> TRUE]
             ELSE IF r.err = "nil"
             THEN [Entries |-> r.Entries, Total |-> Len(r.Entries),
                   err |-> "nil", panic |-> FALSE]
             ELSE queryWithFileScan(dir, q)
    ELSE queryWithFileScan(dir, q)

\* the index plan cannot answer: the store is nil or closed, there is no
\* posting, or the posting does not lead to a readable record
IndexUnavailable(q) ==
    \/ indexDB.nil
    \/ ~indexDB.open
    \/ q.TraceID \notin DOMAIN indexDB.trace_id
    \/ readLogEntry(files, indexDB.trace_id[q.TraceID][1],
                    indexDB.trace_id[q.TraceID][2]) = NoEntry

\* C18: a query with use-index set for which the index cannot answer gets
\* the result of the scan plan, and neither an error nor a panic
C18_IndexFallback ==
    \A q \in Queries :
        (q.UseIndex /\ canUseIndex(q) /\ IndexUnavailable(q))
        => QueryLogs(files, indexDB, q) = queryWithFileScan(files, q)

\* the step of flushBatch that writes one record while the index queue is
\* at capacity
FullQueueWrite(q) ==
    /\ pc[q] = "F_write"
    /\ batchToWrite[q] # <<>>
    /\ batchToWrite'[q] # batchToWrite[q]
    /\ ~writer.nil
    /\ ~writer.err
    /\ Len(indexQueue) >= QueueCap

\* C19: when the index queue is at capacity the record is written to the
\* shard, the flush goes on to the next record of the batch without an
\* error, and the queue is as it was
C19_FullQueueNeverFailsFlush ==
    [][\A q \in Flushers :
          FullQueueWrite(q)
          => /\ writer'.buf = Append(writer.buf, Head(batchToWrite[q]))
             /\ batchToWrite'[q] = Tail(batchToWrite[q])
             /\ pc'[q] = "F_write"
             /\ ferr'[q] = ferr[q]
             /\ indexQueue' = indexQueue]_vars

\* C20: WriteLog returns nil or a closed, write, flush or rotate error, and
\* never an error that comes from the index path
C20_NoIndexErrorToProducer ==
    \A r \in RecordIds :
        results[r] \in {"none", "ok", "closed", "writeErr", "flushErr",
                        "rotateErr"}

(* ------------------------------------------------------------ the index *)
\* the records in the order flushBatch appended them: the lines of the
\* shard and after them the lines still in the writer
Appended ==
    (IF currentFileID \in DOMAIN files THEN files[currentFileID].lines
     ELSE <<>>) \o writer.buf

\* the index queue is empty and no worker holds a record
QueueDrained ==
    /\ indexQueue = <<>>
    /\ \A w \in Workers : pc[w] = "X_wait"

\* position in Appended of the last record that carries the trace id
LastWith(t) ==
    CHOOSE i \in 1..Len(Appended) :
        /\ Appended[i].TraceID = t
        /\ \A j \in (i + 1)..Len(Appended) : Appended[j].TraceID # t

\* C21: once the index queue is drained, the posting stored under a key is
\* the locator of the most recently appended record that carries the key
C21_PostingIsMostRecent ==
    QueueDrained
    => \A t \in DOMAIN indexDB.trace_id :
          /\ \E i \in 1..Len(Appended) : Appended[i].TraceID = t
          /\ indexDB.trace_id[t] =
                <<Appended[LastWith(t)].FileID, Appended[LastWith(t)].Offset>>

(* -------------------------------------------------------- query results *)
\* QueryLogs with or without a global aggregator: GetGlobalAggregator
\* returns nil when none is registered and the scan plan is used
QueryLogsWith(registered, q) ==
    IF registered THEN QueryLogs(files, indexDB, q)
    ELSE queryWithFileScan(files, q)

\* the number of stored records that carry the trace id
StoredWith(t) ==
    Cardinality({pos \in Positions : LineAt(pos).TraceID = t})

\* nothing is buffered and no flush is in progress
AllFlushed ==
    /\ batchBuffer = <<>>
    /\ writer.buf = <<>>
    /\ \A q \in Flushers : pc[q] \notin {"F_copy", "F_reset", "F_write",
                                          "F_flush"}

\* C22: after the records are written and flushed, a query by trace id (by
\* service, by level) reports as Total the number of stored records with
\* that key, whatever the index holds and with or without a global
\* aggregator
C22_TotalCountsAllMatches ==
    AllFlushed
    => \A registered \in BOOLEAN : \A t \in TraceIDs :
          LET q == [TraceID |-> t, Message |-> "", UseIndex |-> TRUE,
                    Limit |-> MaxRecords, Offset |-> 0]
          IN  ~QueryLogsWith(registered, q).panic
              => QueryLogsWith(registered, q).Total = StoredWith(t)

\* the matches of a scan query before paging
Matches(q) == scanFiles(files, DOMAIN files, q)

\* matches[offset .. min(offset + limit, total))
Page(q) ==
    LET total == Len(Matches(q))
        end == IF q.Offset + q.Limit > total THEN total
               ELSE q.Offset + q.Limit
    IN  IF q.Offset >= total THEN <<>>
        ELSE SubSeq(Matches(q), q.Offset + 1, end)

\* C23: a scan query reports total = len(matches) whatever the page, and
\* returns the entries matches[offset .. min(offset + limit, total)), for
\* every limit >= 0 and offset >= 0
C23_ScanPagination ==
    \A q \in Queries :
        ~q.UseIndex
        => /\ ~queryWithFileScan(files, q).panic
           /\ queryWithFileScan(files, q).Total = Len(Matches(q))
           /\ queryWithFileScan(files, q).Entries = Page(q)

\* C24: a query whose message pattern does not compile fails with a query
\* error; it does not return a successful result
C24_BadPatternFailsQuery ==
    \A q \in Queries :
        (q.Message = "(" /\ ~q.UseIndex /\ Positions # {})
        => QueryLogs(files, indexDB, q).err # "nil"

\* C25: the index plan is taken only for a query with use-index set, one
\* indexed key and no message pattern: a query with a message pattern, no
\* key or use-index unset gets the result of the scan plan
C25_IndexPlanOnlyForKeyQueries ==
    \A q \in Queries :
        (/\ q.Message # "" \/ q.TraceID = "" \/ ~q.UseIndex
         /\ ~QueryLogs(files, indexDB, q).panic)
        => QueryLogs(files, indexDB, q) = queryWithFileScan(files, q)

\* the queries the index plan is taken for: use-index and the one key
KeyQueries ==
    [TraceID : TraceIDs, Message : {""}, UseIndex : {TRUE},
     Limit : (0..MaxRecords) \cup {MaxInt}, Offset : 0..MaxRecords]

\* the store is open and its bucket holds no entry for the key of the query
KeyMissing(q) ==
    /\ ~indexDB.nil
    /\ indexDB.open
    /\ q.TraceID \notin DOMAIN indexDB.trace_id

\* C26 as stated: under the index plan a key without entry in the bucket
\* gives an empty result (no entries, total 0), not the result of a scan
C26_MissingKeyReturnsEmpty ==
    \A q \in KeyQueries :
        (KeyMissing(q) /\ q.Limit = MaxRecords /\ q.Offset = 0)
        => /\ QueryLogs(files, indexDB, q).Entries = <<>>
           /\ QueryLogs(files, indexDB, q).Total = 0

\* C26 amended: under the index plan a key without entry in the bucket
\* gives the result of the scan plan for the same query
C26_MissingKeyFallsBackToScan ==
    \A q \in KeyQueries :
        KeyMissing(q)
        => QueryLogs(files, indexDB, q) = queryWithFileScan(files, q)

\* a record with the key is stored, the bucket has no entry for it and the
\* query by that key returns the record
C26_Witness ==
    \E q \in KeyQueries :
        /\ KeyMissing(q)
        /\ StoredWith(q.TraceID) > 0
        /\ q.Limit = MaxRecords
        /\ q.Offset = 0
        /\ QueryLogs(files, indexDB, q).Total = StoredWith(q.TraceID)
        /\ Len(QueryLogs(files, indexDB, q).Entries) = StoredWith(q.TraceID)

(* ------------------------------------------------------- CleanupOldLogs *)
\* a step of CleanupOldLogs: the one step that removes files and moves no
\* goroutine
CleanupStep ==
    /\ files' # files
    /\ pc' = pc
    /\ mfiles' = mfiles
    /\ writer' = writer

\* C27: CleanupOldLogs(dir, d) removes exactly the shard files modified more
\* than d days ago, compressed or not, and keeps the others; a second
\* application right after it finds nothing to remove
C27_CleanupExactAndIdempotent ==
    [][CleanupStep
       => \E d \in CleanupDays :
             /\ \A f \in DOMAIN files :
                   f \in DOMAIN files' <=> ~ModifiedBefore(files[f].mtime, d)
             /\ \A f \in DOMAIN files' : files'[f] = files[f]
             /\ \A g \in DOMAIN gzFiles :
                   /\ ~ModifiedBefore(gzFiles[g].mtime, d)
                   /\ g \in DOMAIN gzFiles'
             /\ \A f \in DOMAIN files' :
                   ~ModifiedBefore(files'[f].mtime, d)]_vars

(* ---------------------------------------------------------- GetLogStats *)
\* the *.log file with the earliest (latest) modification time; of files
\* with the same time the first of the listing
OldestFile(dir) ==
    IF DOMAIN dir = {} THEN NoFile
    ELSE FirstFile({f \in DOMAIN dir :
                      \A g \in DOMAIN dir : dir[f].mtime <= dir[g].mtime})

NewestFile(dir) ==
    IF DOMAIN dir = {} THEN NoFile
    ELSE FirstFile({f \in DOMAIN dir :
                      \A g \in DOMAIN dir : dir[f].mtime >= dir[g].mtime})

\* GetLogStats: the number and the sizes of the *.log files of the directory
GetLogStats(dir) ==
    [total_files |-> Cardinality(DOMAIN dir),
     total_size |-> DirBytes(dir, DOMAIN dir),
     oldest_file |-> OldestFile(dir),
     newest_file |-> NewestFile(dir)]

\* one WriteLog has returned nil on a new aggregator; Close was not called
OneWriteReturned ==
    /\ ncalls = 1
    /\ results[1] = "ok"
    /\ \A p \in Producers : pc[p] = "idle"
    /\ ~atClose.began
    /\ \A c \in Closers : pc[c] = "C_enter"
    /\ Len(opened) = 1

\* C28: after one successful WriteLog on a new aggregator, without flush
\* and without Close, GetLogStats reports one file, a size above zero and
\* the names of the oldest and the newest file
C28_StatsAfterOneWrite ==
    OneWriteReturned
    => /\ GetLogStats(files).total_files = 1
       /\ GetLogStats(files).total_size > 0
       /\ GetLogStats(files).oldest_file # NoFile
       /\ GetLogStats(files).newest_file # NoFile

(* -------------------------------------------------------------- mutexes *)
\* positions at which the next step of a goroutine reads or writes
\* la.batchBuffer: the append and the length check of WriteLog, the length
\* check, the copy and the reset of flushBatch
BufferPcs == {"W_append", "W_store", "W_size", "F_len", "F_lock", "F_reset"}

\* C29: every step that reads or changes the batch buffer is taken by a
\* goroutine that holds batchMutex, on every path into flushBatch
C29_BufferUnderBatchMutex ==
    [][\A q \in Flushers :
          (pc[q] \in BufferPcs /\ pc'[q] # pc[q]) => batchMutex = q]_vars

\* rotateFile has closed the old file and initializeFile has not returned
InRotation(p) == pc[p] = "R_init"

\* C30: between the close of the old shard and the opening of the new one
\* no flush writes to the shard writer
C30_NoWriteDuringRotation ==
    [][\A p \in Producers :
          (InRotation(p) /\ pc'[p] = pc[p]) => writer' = writer]_vars

(* ---------------------------------------------------------- shouldRotate *)
\* the size of the current shard file has reached the rotation size, or the
\* calendar day is not the day of the current shard identifier
RotationDue ==
    \/ /\ currentFileID \in DOMAIN files
       /\ FileSize(currentFileID) >= RotationSize
    \/ now # currentFileID[1]

\* C31: whenever WriteLog evaluates shouldRotate on an aggregator that has
\* not been closed, it is true if and only if the current shard has reached
\* the rotation size or the day differs from the day of the current shard
\* identifier
C31_ShouldRotateIff ==
    \A p \in Producers :
        (pc[p] = "W_rotate" /\ ~closed) => (shouldRotate <=> RotationDue)

(* ------------------------------------------------- failure inside a flush *)
\* lines 320-322: this step of q is the return of flushBatch with the error
\* of writer.Write on the record at the head of the rest of the batch
WriteFailed(q) ==
    /\ pc[q] = "F_write"
    /\ batchToWrite[q] # <<>>
    /\ ~writer.nil
    /\ writer.err
    /\ pc'[q] = fret[q]

\* the writer takes the records of a later flush: it is set and carries no
\* error from an earlier write
WriterAccepts ==
    /\ ~writer.nil
    /\ ~writer.err

\* C32: when appending a record of the batch fails, the flush returns, the
\* rest of the batch is discarded, the batch buffer of a caller that holds
\* batchMutex is empty, and the writer accepts the records of the WriteLog
\* calls that follow, so that they are flushed normally
C32_FlushFailureIsContained ==
    [][\A q \in Flushers :
          WriteFailed(q) =>
              /\ batchToWrite'[q] = <<>>
              /\ (batchMutex = q => batchBuffer' = <<>>)
              /\ WriterAccepts']_vars

(* ---- shutdown with the index worker pool running: producers, Close and the
        workers; the flush ticker does not fire, the clock may pass midnight *)
NextShutdown ==
    \/ \E p \in Producers : WriteLogEnter(p)
    \/ \E p \in Producers : WriteLogStamp(p)
    \/ \E p \in Producers : WriteLogAppendRead(p)
    \/ \E p \in Producers : WriteLogAppendStore(p)
    \/ \E p \in Producers : WriteLogShouldRotate(p)
    \/ \E p \in Producers : RotateClose(p)
    \/ \E p \in Producers : RotateInit(p)
    \/ \E p \in Producers : WriteLogSize(p)
    \/ \E p \in Producers : WriteLogFlushed(p)
    \/ \E q \in Producers \cup Closers : FlushLen(q)
    \/ \E q \in Producers \cup Closers : FlushCopy(q)
    \/ \E q \in Producers \cup Closers : FlushReset(q)
    \/ \E q \in Producers \cup Closers : FlushWrite(q)
    \/ \E q \in Producers \cup Closers : FlushFlush(q)
    \/ \E c \in Closers : CloseEnter(c)
    \/ \E c \in Closers : CloseWait(c)
    \/ \E c \in Closers : CloseLockBatch(c)
    \/ \E c \in Closers : CloseUnlockBatch(c)
    \/ \E c \in Closers : CloseFile(c)
    \/ \E c \in Closers : CloseEnd(c)
    \/ \E w \in Workers : IndexWorkerReceive(w)
    \/ \E w \in Workers : IndexWorkerUpdate(w)
    \/ \E w \in Workers : IndexWorkerExit(w)
    \/ AdvanceDay

SpecShutdown == Init /\ [][NextShutdown]_vars

\* Close has closed the index store (lines 659-662)
StoreClosed == indexDB.nil

\* C33: when Close has closed the index store, no record is left in the index
\* queue and no worker holds a record whose postings it has not written
C33_CloseDrainsIndexQueue ==
    StoreClosed =>
        /\ indexQueue = <<>>
        /\ \A w \in Workers : entry[w] = NoEntry

(* ---- shutdown of the background tasks: one WriteLog has returned and its
        record is in the batch buffer; the flush ticker, the index worker
        pool and the maintenance task run, Close is called at any moment    *)
BufferedRecord ==
    [id |-> 1, producer |-> <<"producer", 1>>,
     size |-> CHOOSE n \in MsgSizes(1) : TRUE, TraceID |-> "t1",
     Timestamp |-> 1, FileID |-> FileIDOf(1, 1), Offset |-> 0]

Buffered ==
    /\ EmailInit
    /\ pc = StartPc
    /\ closed = FALSE
    /\ ctxDone = FALSE
    /\ closeMutex = NoProc
    /\ batchMutex = NoProc
    /\ mutex = NoProc
    /\ batchBuffer = <<BufferedRecord>>
    /\ currentFileID = FileIDOf(1, 1)
    /\ currentOffset = 0
    /\ lastRotation = 1
    /\ aggregateFile = "open"
    /\ writer = [nil |-> FALSE, buf |-> <<>>, err |-> FALSE]
    /\ files = (FileIDOf(1, 1) :> [lines |-> <<>>, mtime |-> 1])
    /\ indexQueue = <<>>
    /\ queueClosed = FALSE
    /\ doneClosed = FALSE
    /\ indexDB = [nil |-> FALSE, open |-> TRUE, trace_id |-> [t \in {} |-> 0]]
    /\ now = 1
    /\ entry = [p \in Producers \cup Workers |-> NoEntry]
    /\ snap = [p \in Producers |-> <<>>]
    /\ batchToWrite = [p \in Flushers |-> <<>>]
    /\ fret = [p \in Flushers |-> "none"]
    /\ ferr = [p \in Flushers |-> "nil"]
    /\ ncalls = 1
    /\ results = [r \in RecordIds |-> IF r = 1 THEN "ok" ELSE "none"]
    /\ closeRet = [c \in Closers |-> "none"]
    /\ panicked = FALSE
    /\ atClose = [began |-> FALSE, buffer |-> <<>>,
                  results |-> [r \in RecordIds |-> "none"]]
    /\ gzFiles = [f \in {} |-> 0]
    /\ mfiles = [todo |-> {}, cur |-> <<0, 0>>]
    /\ opened = <<[id |-> FileIDOf(1, 1), fresh |-> TRUE]>>

\* the steps of the flush ticker inside flushBatch
FlushTaskFlush ==
    \/ FlushLen(FlushTaskProc)
    \/ FlushCopy(FlushTaskProc)
    \/ FlushReset(FlushTaskProc)
    \/ FlushWrite(FlushTaskProc)
    \/ FlushFlush(FlushTaskProc)

\* the steps of one caller of Close
CloseStep(c) ==
    \/ CloseEnter(c)
    \/ CloseWait(c)
    \/ CloseLockBatch(c)
    \/ FlushLen(c)
    \/ FlushCopy(c)
    \/ FlushReset(c)
    \/ FlushWrite(c)
    \/ FlushFlush(c)
    \/ CloseUnlockBatch(c)
    \/ CloseFile(c)
    \/ CloseEnd(c)

\* the steps of the maintenance cycle after its ticker has fired
MaintenanceCycle ==
    \/ CompressNext
    \/ MaintenanceCleanup

NextStop ==
    \/ \E c \in Closers : CloseStep(c)
    \/ FlushTaskTick
    \/ FlushTaskFlush
    \/ FlushTaskExit
    \/ \E w \in Workers : IndexWorkerReceive(w)
    \/ \E w \in Workers : IndexWorkerUpdate(w)
    \/ \E w \in Workers : IndexWorkerExit(w)
    \/ MaintenanceTick
    \/ MaintenanceCycle
    \/ MaintenanceExit

\* every goroutine that can take a step takes one; a select whose ctx.Done
\* case is ready again and again takes that case in the end, since select
\* chooses among its ready cases at random
LiveStop ==
    /\ Buffered
    /\ [][NextStop]_vars
    /\ \A c \in Closers : WF_vars(CloseStep(c))
    /\ WF_vars(FlushTaskFlush)
    /\ SF_vars(FlushTaskExit)
    /\ \A w \in Workers : WF_vars(IndexWorkerUpdate(w))
    /\ \A w \in Workers : SF_vars(IndexWorkerExit(w))
    /\ WF_vars(MaintenanceCycle)
    /\ SF_vars(MaintenanceExit)

BackgroundTasks == Workers \cup {FlushTaskProc, MaintProc}

\* the goroutine has returned from its loop
Returned(t) == pc[t] \in {"X_done", "T_done", "M_done"}

\* the goroutine has come to its end: it has returned, or an unrecovered
\* panic has ended the process and every goroutine with it
Terminated(t) == Returned(t) \/ panicked

\* C34: once Close has cancelled the context, every index worker, the flush
\* task and the maintenance task eventually terminate
C34_BackgroundTasksTerminate ==
    ctxDone ~> (\A t \in BackgroundTasks : Terminated(t))

C34_Witness ==
    /\ ctxDone
    /\ ~panicked
    /\ \A t \in BackgroundTasks : Returned(t)

\* C35: one WriteLog and Close: when Close has returned and the WriteLog has
\* returned ok, its record is on disk
C35_RacingWriteNotLost ==
    (ncalls = 1 /\ now = 1 /\ CloseReturned /\ results[1] = "ok")
        => OnDisk(1)

(* ---------------------------------------------------------- use after close *)
\* lines 320 and 339: a flush is at la.writer.Write or la.writer.Flush and
\* Close has set the writer to nil
WriterUsedAfterClose ==
    \E q \in Flushers : pc[q] = "F_write" /\ writer.nil

\* line 347: a worker is at la.indexDB.Update and Close has set the store to
\* nil
StoreUsedAfterClose ==
    \E w \in Workers : pc[w] = "X_update" /\ indexDB.nil

\* line 330: a flush is in its loop, where it sends on the index queue, and
\* Close has closed the queue
QueueUsedAfterClose ==
    \E q \in Flushers :
        pc[q] = "F_write" /\ batchToWrite[q] # <<>> /\ queueClosed

\* C36: no goroutine is about to write through the writer that Close has set
\* to nil, to call the index store that Close has set to nil, or to send on
\* the index queue that Close has closed
C36_NoUseAfterClose ==
    /\ ~WriterUsedAfterClose
    /\ ~StoreUsedAfterClose
    /\ ~QueueUsedAfterClose

(* ---- records with and without trace id: producers and the index worker
        pool; the flush ticker does not fire, Close is not called            *)
NextTraces ==
    \/ \E p \in Producers : WriteLogEnterAny(p)
    \/ \E p \in Producers : WriteLogStamp(p)
    \/ \E p \in Producers : WriteLogAppendRead(p)
    \/ \E p \in Producers : WriteLogAppendStore(p)
    \/ \E p \in Producers : WriteLogShouldRotate(p)
    \/ \E p \in Producers : RotateClose(p)
    \/ \E p \in Producers : RotateInit(p)
    \/ \E p \in Producers : WriteLogSize(p)
    \/ \E p \in Producers : WriteLogFlushed(p)
    \/ \E q \in Producers : FlushLen(q)
    \/ \E q \in Producers : FlushCopy(q)
    \/ \E q \in Producers : FlushReset(q)
    \/ \E q \in Producers : FlushWrite(q)
    \/ \E q \in Producers : FlushFlush(q)
    \/ \E w \in Workers : IndexWorkerReceive(w)
    \/ \E w \in Workers : IndexWorkerUpdate(w)
    \/ AdvanceDay

SpecTraces == Init /\ [][NextTraces]_vars

\* C37: every record that the index plan returns for a query by trace id
\* carries the trace id of the query
C37_IndexPlanSound ==
    \A q \in KeyQueries :
        LET r == queryWithIndex(files, indexDB, q)
        IN  (~r.panic /\ r.err = "nil")
                => \A i \in 1..Len(r.Entries) :
                       r.Entries[i].TraceID = q.TraceID

(* --------------------------------------------------------------- the locks *)
\* the goroutine that holds the mutex the goroutine t is about to lock, NoProc
\* when t is not at a Lock or the mutex is free
WaitsFor(t) ==
    IF pc[t] = "C_enter" THEN closeMutex
    ELSE IF pc[t] \in {"W_lock", "C_batch"} THEN batchMutex
    ELSE IF pc[t] \in {"F_lock", "R_init", "C_file"} THEN mutex
    ELSE NoProc

\* the number of goroutines
NumProcs == Cardinality(Procs)

RECURSIVE WaitChain(_, _, _)
\* t is reached from h along at most n steps of WaitsFor
WaitChain(t, h, n) ==
    IF h = NoProc \/ n = 0 THEN FALSE
    ELSE IF h = t THEN TRUE
    ELSE WaitChain(t, WaitsFor(h), n - 1)

\* a wait cycle: t waits for a mutex whose holder waits, and so on, for t;
\* a cycle of length one is the second Lock of a mutex by its holder
WaitCycle ==
    \E t \in Procs :
        WaitsFor(t) # NoProc /\ WaitChain(t, WaitsFor(t), NumProcs)

(* ---- every goroutine that takes a mutex: WriteLog with its flushes and
        rotations, the flush ticker, Close and the maintenance task         *)
NextLocks ==
    \/ Next
    \/ MaintenanceTick
    \/ MaintenanceCycle
    \/ MaintenanceExit

SpecLocks == Init /\ [][NextLocks]_vars

C39_DoneRaisedWhenTasksStopped ==
    \A c \in Closers :
        (pc[c] = "C_wait" /\ \A t \in BackgroundTasks : Returned(t))
            => doneClosed

(* ------------------------------------------------------- the email notifier *)
\* the configurations SetEmailConfig is called with: nil, or one of the
\* application
Configs == {"nil", "cfg"}

\* emailMutex.RLock() returns: no writer holds the mutex or has announced
\* itself (sync.RWMutex keeps new readers out once Lock has been called)
RLockReady == emailMutex.w = NoProc

\* emailMutex.Lock() returns: the readers have left
LockReady(e) == emailMutex.w = e /\ emailMutex.readers = {}

\* lines 423-424: sendEmailNotification calls getEmailNotifier
sendEmailNotification(e) ==
    /\ epc[e] = "idle"
    /\ epc' = [epc EXCEPT ![e] = "G_rlock"]
    /\ UNCHANGED <<logVars, emailMutex, globalEmailNotifier, config>>

\* line 413: emailMutex.RLock()
getEmailNotifierRLock(e) ==
    /\ epc[e] = "G_rlock"
    /\ RLockReady
    /\ emailMutex' = [emailMutex EXCEPT !.readers = @ \cup {e}]
    /\ epc' = [epc EXCEPT ![e] = "G_check"]
    /\ UNCHANGED <<logVars, globalEmailNotifier, config>>

\* lines 416-418: the nil test; on nil SetEmailConfig(nil) is called with the
\* read lock held
getEmailNotifierCheck(e) ==
    /\ epc[e] = "G_check"
    /\ IF globalEmailNotifier = "nil"
       THEN /\ epc' = [epc EXCEPT ![e] = "S_lock"]
            /\ config' = [config EXCEPT ![e] = "nil"]
       ELSE /\ epc' = [epc EXCEPT ![e] = "G_ret"]
            /\ UNCHANGED config
    /\ UNCHANGED <<logVars, emailMutex, globalEmailNotifier>>

\* lines 419 and 414, 425-427: return with the deferred RUnlock; the caller
\* hands the message to the notifier
getEmailNotifierReturn(e) ==
    /\ epc[e] = "G_ret"
    /\ emailMutex' = [emailMutex EXCEPT !.readers = @ \ {e}]
    /\ epc' = [epc EXCEPT ![e] = "idle"]
    /\ UNCHANGED <<logVars, globalEmailNotifier, config>>

\* line 393: the application calls SetEmailConfig
SetEmailConfig(e) ==
    /\ epc[e] = "idle"
    /\ \E c \in Configs : config' = [config EXCEPT ![e] = c]
    /\ epc' = [epc EXCEPT ![e] = "S_lock"]
    /\ UNCHANGED <<logVars, emailMutex, globalEmailNotifier>>

\* line 394, first half of emailMutex.Lock(): the writer has the inner mutex
\* and is announced to the readers
SetEmailConfigAnnounce(e) ==
    /\ epc[e] = "S_lock"
    /\ emailMutex.w = NoProc
    /\ emailMutex' = [emailMutex EXCEPT !.w = e]
    /\ epc' = [epc EXCEPT ![e] = "S_wait"]
    /\ UNCHANGED <<logVars, globalEmailNotifier, config>>

\* line 394, second half of emailMutex.Lock(): the readers have left
SetEmailConfigLocked(e) ==
    /\ epc[e] = "S_wait"
    /\ LockReady(e)
    /\ epc' = [epc EXCEPT ![e] = "S_install"]
    /\ UNCHANGED <<logVars, emailMutex, globalEmailNotifier, config>>

\* lines 397-408 and 395: the notifier is built from the configuration (from
\* the environment for nil), installed, and the mutex is unlocked; a call
\* from getEmailNotifier returns into it
SetEmailConfigInstall(e) ==
    /\ epc[e] = "S_install"
    /\ globalEmailNotifier' = IF config[e] = "nil" THEN "env" ELSE config[e]
    /\ emailMutex' = [emailMutex EXCEPT !.w = NoProc]
    /\ config' = [config EXCEPT ![e] = "none"]
    /\ epc' = [epc EXCEPT ![e] =
                  IF e \in emailMutex.readers THEN "G_ret" ELSE "idle"]
    /\ UNCHANGED logVars

\* the steps of one caller
EmailStep(e) ==
    \/ sendEmailNotification(e)
    \/ getEmailNotifierRLock(e)
    \/ getEmailNotifierCheck(e)
    \/ getEmailNotifierReturn(e)
    \/ SetEmailConfig(e)
    \/ SetEmailConfigAnnounce(e)
    \/ SetEmailConfigLocked(e)
    \/ SetEmailConfigInstall(e)

NextEmail == \E e \in EmailCallers : EmailStep(e)

\* every goroutine inside a call takes its next step when it can; nothing
\* obliges the application to make a call
EmailProgress(e) ==
    \/ getEmailNotifierRLock(e)
    \/ getEmailNotifierCheck(e)
    \/ getEmailNotifierReturn(e)
    \/ SetEmailConfigAnnounce(e)
    \/ SetEmailConfigLocked(e)
    \/ SetEmailConfigInstall(e)

LiveEmail ==
    /\ Init
    /\ [][NextEmail]_vars
    /\ \A e \in EmailCallers : SF_vars(EmailProgress(e))

\* the caller e is in getEmailNotifier and has found no notifier
LazyInit(e) ==
    /\ epc[e] \in {"S_lock", "S_wait", "S_install"}
    /\ e \in emailMutex.readers

\* C40: a call of getEmailNotifier that finds no notifier installs one and
\* returns
C40_LazyInitTerminates ==
    \A e \in EmailCallers :
        LazyInit(e) ~> (epc[e] = "idle" /\ globalEmailNotifier # "nil")

====
